---- MODULE Spec2Model ----
(***************************************************************************)
(* Health monitoring and recovery loop of the Hindi AI Assistant front     *)
(* end (frontend/error-recovery.js, class ErrorRecoverySystem) together    *)
(* with the parts of the application object (frontend/app.js) it drives:   *)
(* the notice overlay, the cached service handles, the camera and its      *)
(* detection polling, the microphone recording and the chat placeholders.  *)
(*                                                                         *)
(* JavaScript runs one task at a time: every action below is one run to    *)
(* completion of a timer callback, an event listener or the continuation   *)
(* of an awaited promise, including the microtasks it queues.  Timers and  *)
(* network responses fire in any order; delays are not modelled.           *)
(***************************************************************************)
EXTENDS Integers, Sequences, FiniteSets, TLC

(***************************************************************************)
(* Bounds of the model.                                                    *)
(***************************************************************************)
MaxInFlight == 1        \* performHealthCheck calls awaiting fetch at once
MaxCheckTimers == 1     \* pending setTimeout(performHealthCheck) timers
MaxSysRec == 2          \* initiateSystemRecovery calls in progress at once
MaxTimers == 2          \* pending setTimeout(recoverService(s)) per service
MaxCalls == 1           \* timer-started recoverService(s) awaiting, per service
MaxHideTimers == 1      \* pending setTimeout(hideError, 3000) timers
MaxRecoveryCount == 5   \* cap of systemStatus.recoveryCount
MaxPayload == 3         \* services in one status payload
MaxPrior == 1           \* records present before the poll under study
MaxRecoveries == 2      \* successful recoveries in SpecEscalation
MaxIntervals == 3       \* ids of setInterval timers
MaxDetections == 2      \* performFaceDetection calls awaiting the response
MaxWelcomes == 2        \* calls of playWelcomeMessage
MaxRecorders == 2       \* MediaRecorder objects created
MaxStarting == 2        \* startRecording calls in progress
MaxErrors == 1          \* app.conversationState.errorCount
MaxProcessing == 3      \* processAudio calls

(***************************************************************************)
(* Program constants.                                                      *)
(***************************************************************************)
maxFailures == 3

\* Object.keys(this.recoveryStrategies), in insertion order
StrategyOrder ==
    <<"transcription", "response_generation", "tts", "face_detection",
      "conversation">>

Registered == {StrategyOrder[i] : i \in 1..Len(StrategyOrder)}

\* Names the status endpoint may report: the registered services and one
\* service without a recovery strategy.
ServiceNames == Registered \cup {"database"}

(***************************************************************************)
(* A status payload.  shape: "services" (a body with a services object),   *)
(* "noServices" (a JSON object without one), "nullBody" (the JSON value    *)
(* null), "notJson" (response.json() rejects).  entries lists the keys of  *)
(* services in order; available is what serviceStatus.available reads:     *)
(* "true", "false", "missing" (no such field, or the entry is a number or  *)
(* a string), "nonbool" (a value such as 1 or "yes"), "null" (the entry    *)
(* itself is null, so reading .available throws a TypeError).              *)
(***************************************************************************)
Available == {"true", "false", "missing", "nonbool", "null"}

Entry == [name : ServiceNames, available : Available]

RECURSIVE DistinctNames(_)
DistinctNames(es) ==
    IF Len(es) <= 1 THEN TRUE
    ELSE /\ \A i \in 2..Len(es) : es[i].name # es[1].name
         /\ DistinctNames(Tail(es))

EntriesOver(names, avail, n) ==
    UNION {{es \in [1..k -> [name : names, available : avail]] :
               DistinctNames(es)} : k \in 0..n}

StatusOver(names, avail, n) ==
    {[shape |-> "services", entries |-> es] : es \in EntriesOver(names, avail, n)}
    \cup {[shape |-> sh, entries |-> <<>>] :
              sh \in {"noServices", "nullBody", "notJson"}}

VARIABLES
    lastCheck,            \* healthChecks.lastCheck: "null" or "set"
    intervalId,           \* healthChecks.intervalId is a live interval
    consecutiveFailures,  \* healthChecks.consecutiveFailures
    overall,              \* systemStatus.overall
    services,             \* systemStatus.services: name -> record
    lastRecoveryAttempt,  \* systemStatus.lastRecoveryAttempt: 0 is null
    recoveryCount,        \* systemStatus.recoveryCount
    fetches,              \* performHealthCheck calls awaiting fetch
    checkTimers,          \* pending setTimeout(() => performHealthCheck())
    recoveryTimers,       \* service -> pending setTimeout(recoverService)
    calls,                \* service -> timer-started recoverService awaiting
    running,              \* the initiateSystemRecovery calls in progress
    results,              \* system recovery -> service -> recovered, kept
                          \* after the call ends (recoveryResults, line 308)
    yielded,              \* system recovery -> the worst its strategies have
                          \* yielded so far: "true", "false" or "throw"
    errorText,            \* app.errorText.textContent
    errorVisible,         \* app.errorOverlay is displayed
    hideTimers,           \* pending setTimeout(() => app.hideError(), 3000)
    escaped,              \* a rejection left recoverService or its callers
    status,               \* the response body of the poll under study
    prior,                \* systemStatus.services before that poll
    pc,                   \* how far the poll under study has got
    stt_service,          \* app.stt_service: "undefined", "null" or "handle"
    tts_service,          \* app.tts_service: "undefined", "null" or "handle"
    videoStream,          \* app.videoStream: "null" or "stream"
    faceDetectionInterval,\* app.faceDetectionInterval: 0 is null, else an id
    intervals,            \* ids of the setInterval timers that are live
    camera,               \* how far initializeCamera has got
    detections,           \* performFaceDetection calls awaiting the response
    hasPlayedWelcome,     \* app.hasPlayedWelcome
    welcomes,             \* calls of playWelcomeMessage so far
    isRecording,          \* app.isRecording
    mediaRecorder,        \* app.mediaRecorder: 0 is null, else a recorder
    recorders,            \* recorder -> "none", "inactive" or "recording"
    starting,             \* startRecording calls awaiting the microphone
                          \* (mic) and awaiting setupAudioAnalysis (analysis)
    loadingVisible,       \* app.loadingOverlay is displayed
    conversationState,    \* app.conversationState: <<>> is undefined, else
                          \* <<c>> with c the object
    recordBtn,            \* app.recordBtn: "undefined", "enabled", "disabled"
    currentThinkingMessage, \* app.currentThinkingMessage: 0 is null, else
                          \* the placeholder of that processAudio call
    placeholders,         \* call -> its 'Processing your message...'
                          \* element: "none", "thinking", "replaced" (by a
                          \* text) or "removed"
    processing            \* call -> how far processAudio has got

progVars ==
    <<lastCheck, intervalId, consecutiveFailures, overall, services,
      lastRecoveryAttempt, recoveryCount, fetches, checkTimers,
      recoveryTimers, calls, running, results, yielded, errorText,
      errorVisible, hideTimers, escaped>>

\* The cached handles of the transcription and speech-synthesis services
handleVars == <<stt_service, tts_service>>

\* The camera, its detection polling and the welcome message
cameraVars ==
    <<videoStream, faceDetectionInterval, intervals, camera, detections,
      hasPlayedWelcome, welcomes>>

\* The microphone recording and the conversation state
recordingVars ==
    <<isRecording, mediaRecorder, recorders, starting, loadingVisible,
      conversationState, recordBtn>>

\* The fields of the application object (this.app) the strategies work on
\* The chat: the placeholders of the processAudio calls
chatVars == <<currentThinkingMessage, placeholders, processing>>

app == <<handleVars, cameraVars, recordingVars, chatVars>>

vars == <<progVars, status, prior, pc, app>>

(***************************************************************************)
(* processHealthCheckResults                                               *)
(***************************************************************************)
\* A variant that takes everything but an explicit false for healthy
isHealthyUnlessFalse(available) == available # "false"

\* const isHealthy = serviceStatus.available === true
isHealthy(available) == available = "true"

\* this.systemStatus.services[serviceName] = {healthy, lastCheck, details};
\* nothing reads lastCheck and details, and the model leaves them out.
upsert(m, e) ==
    [n \in DOMAIN m \cup {e.name} |->
        IF n = e.name
        THEN [healthy |-> isHealthy(e.available)]
        ELSE m[n]]

\* if (!isHealthy && this.recoveryStrategies[serviceName]) setTimeout(...)
schedulesRecovery(e) == ~isHealthy(e.available) /\ e.name \in Registered

\* The forEach over Object.keys(services): the records and the recovery
\* timers after the loop, and whether it threw on a null entry.
RECURSIVE forEachService(_, _, _)
forEachService(es, m, t) ==
    IF es = <<>> THEN [services |-> m, timers |-> t, threw |-> FALSE]
    ELSE IF Head(es).available = "null"
         THEN [services |-> m, timers |-> t, threw |-> TRUE]
         ELSE forEachService(
                  Tail(es), upsert(m, Head(es)),
                  IF schedulesRecovery(Head(es))
                  THEN [t EXCEPT ![Head(es).name] = @ + 1] ELSE t)

healthyServices(m) == Cardinality({n \in DOMAIN m : m[n].healthy})

totalServices(m) == Cardinality(DOMAIN m)

\* A variant that takes a majority of healthy records for 'healthy'
computeOverallByMajority(m) ==
    IF 2 * healthyServices(m) > totalServices(m) THEN "healthy"
    ELSE IF healthyServices(m) > 0 THEN "degraded"
    ELSE "critical"

\* A variant in which exactly half of the records healthy is 'degraded'
computeOverallHalfDegraded(m) ==
    IF healthyServices(m) = totalServices(m) THEN "healthy"
    ELSE IF 2 * healthyServices(m) >= totalServices(m) THEN "degraded"
    ELSE "critical"

\* lines 119-125; healthy > total / 2 is a comparison of reals
computeOverall(m) ==
    IF healthyServices(m) = totalServices(m) THEN "healthy"
    ELSE IF 2 * healthyServices(m) > totalServices(m) THEN "degraded"
    ELSE "critical"

\* The whole call on body st from records m, timers t and aggregate ov.
\* status.services on a null body throws before anything is written.
processHealthCheckResults(st, m, t, ov) ==
    IF st.shape = "nullBody"
    THEN [services |-> m, timers |-> t, overall |-> ov, threw |-> TRUE]
    ELSE LET r == forEachService(st.entries, m, t) IN
         [services |-> r.services, timers |-> r.timers, threw |-> r.threw,
          overall |-> IF r.threw THEN ov ELSE computeOverall(r.services)]

(***************************************************************************)
(* recoverService                                                          *)
(***************************************************************************)
\* What awaiting a registered strategy yields: it returns true or a falsy
\* value, or it rejects.
Outcomes == {"true", "false", "throw"}

\* recoverResponseService and recoverConversationFlow return without
\* awaiting anything, so recoverService resumes in the task that called it;
\* the other three await app.checkServiceStatus() or a 2000 ms timer.
SyncStrategies == {"response_generation", "conversation"}

AsyncStrategies == Registered \ SyncStrategies

\* A variant of recoverService that counts a recovery only when the
\* record was unhealthy
afterStrategyCountsOnce(st, s, out) ==
    IF out = "true" /\ s \in DOMAIN st.services
    THEN IF st.services[s].healthy
         THEN [services |-> st.services,
               lastRecoveryAttempt |-> st.lastRecoveryAttempt,
               recoveryCount |-> st.recoveryCount,
               ret |-> TRUE, threw |-> FALSE]
         ELSE [services |-> [st.services EXCEPT ![s].healthy = TRUE],
               lastRecoveryAttempt |-> st.recoveryCount + 1,
               recoveryCount |-> st.recoveryCount + 1,
               ret |-> TRUE, threw |-> FALSE]
    ELSE [services |-> st.services,
          lastRecoveryAttempt |-> st.lastRecoveryAttempt,
          recoveryCount |-> st.recoveryCount,
          ret |-> FALSE, threw |-> FALSE]

\* A variant of recoverService without the catch of line 156
afterStrategyNoCatch(st, s, out) ==
    IF out = "true" /\ s \in DOMAIN st.services
    THEN [services |-> [st.services EXCEPT ![s].healthy = TRUE],
          lastRecoveryAttempt |-> st.recoveryCount + 1,
          recoveryCount |-> st.recoveryCount + 1,
          ret |-> TRUE, threw |-> FALSE]
    ELSE [services |-> st.services,
          lastRecoveryAttempt |-> st.lastRecoveryAttempt,
          recoveryCount |-> st.recoveryCount,
          ret |-> FALSE, threw |-> out # "false"]

\* Lines 142-159 once the strategy of s has yielded out, on
\* st = [services, recoveryCount, lastRecoveryAttempt].  The write to
\* services[serviceName].healthy throws a TypeError when s has no record;
\* the catch of line 156 turns that and a rejected strategy into false, so
\* recoverService itself never rejects (threw).
afterStrategy(st, s, out) ==
    IF out = "true" /\ s \in DOMAIN st.services
    THEN [services |-> [st.services EXCEPT ![s].healthy = TRUE],
          lastRecoveryAttempt |-> st.recoveryCount + 1,
          recoveryCount |-> st.recoveryCount + 1,
          ret |-> TRUE, threw |-> FALSE]
    ELSE [services |-> st.services,
          lastRecoveryAttempt |-> st.lastRecoveryAttempt,
          recoveryCount |-> st.recoveryCount,
          ret |-> FALSE, threw |-> FALSE]

statusOf(a) ==
    [services |-> a.services, recoveryCount |-> a.recoveryCount,
     lastRecoveryAttempt |-> a.lastRecoveryAttempt]

statusNow == [services |-> services, recoveryCount |-> recoveryCount,
              lastRecoveryAttempt |-> lastRecoveryAttempt]

\* A variant of recoverService that counts a call without a strategy as an
\* attempt
recoverServiceCountsAttempt(st, name, out) ==
    IF name \notin Registered
    THEN [services |-> st.services,
          lastRecoveryAttempt |-> st.recoveryCount + 1,
          recoveryCount |-> st.recoveryCount + 1,
          ret |-> FALSE, threw |-> FALSE]
    ELSE afterStrategy(st, name, out)

\* recoverService(name), lines 130-160, its strategy (if any) yielding out:
\* without a registered strategy it returns false at line 139.
recoverService(st, name, out) ==
    IF name \notin Registered
    THEN [services |-> st.services,
          lastRecoveryAttempt |-> st.lastRecoveryAttempt,
          recoveryCount |-> st.recoveryCount,
          ret |-> FALSE, threw |-> FALSE]
    ELSE afterStrategy(st, name, out)

\* recoverConversationFlow reaches this.app.hideError() (line 272) on the
\* path on which it returns true.
strategyHidesError(s, out) == s = "conversation" /\ out = "true"

(***************************************************************************)
(* initiateSystemRecovery                                                  *)
(***************************************************************************)
Idle == [s \in Registered |-> "idle"]

FreeSlots == (1..MaxSysRec) \ running

\* Lines 298-306 for one service: the arrow function catches a rejection of
\* recoverService and reports recovered: false.
recovered(a) == IF a.threw THEN "false" ELSE IF a.ret THEN "true" ELSE "false"

\* recoverService(s) for each synchronous strategy s of order in turn,
\* strategy s yielding oc[s]: the status at the end, each result, and
\* whether a recoverService rejected.
RECURSIVE settleEach(_, _, _)
settleEach(order, st, oc) ==
    IF order = <<>> THEN [st |-> st, row |-> Idle, threw |-> FALSE]
    ELSE IF Head(order) \notin SyncStrategies
         THEN LET rest == settleEach(Tail(order), st, oc) IN
              [rest EXCEPT !.row[Head(order)] = "pending"]
         ELSE LET a == afterStrategy(st, Head(order), oc[Head(order)])
                  rest == settleEach(Tail(order), statusOf(a), oc)
              IN  [st |-> rest.st,
                   row |-> [rest.row EXCEPT ![Head(order)] = recovered(a)],
                   threw |-> a.threw \/ rest.threw]

SyncOutcomes == [SyncStrategies -> Outcomes]

worstOf(outs) ==
    IF "throw" \in outs THEN "throw"
    ELSE IF "false" \in outs THEN "false" ELSE "true"

\* Lines 292-308 up to the await of Promise.all: the notice, then every
\* strategy is invoked in registry order, and the synchronous ones have
\* returned before the task ends.
systemRecoveryStart(st, oc) ==
    LET r == settleEach(StrategyOrder, st, oc) IN
    [st |-> r.st, row |-> r.row, threw |-> r.threw,
     yielded |-> worstOf({oc[s] : s \in SyncStrategies}),
     visible |-> ~strategyHidesError("conversation", oc["conversation"])]

successfulRecoveries(row) == Cardinality({s \in Registered : row[s] = "true"})

\* A variant that reports success when most services recovered
outcomeNoticeByMajority(row) ==
    IF 2 * successfulRecoveries(row) > Cardinality(Registered) THEN "success"
    ELSE IF successfulRecoveries(row) > 0 THEN "partial"
    ELSE "failure"

\* Lines 311-324: the notice of the outcome
outcomeNotice(row) ==
    IF successfulRecoveries(row) = Cardinality(Registered) THEN "success"
    ELSE IF successfulRecoveries(row) > 0 THEN "partial"
    ELSE "failure"

(***************************************************************************)
(* The state after the constructor: the interval is set and the initial    *)
(* 5000 ms check is pending.                                               *)
(***************************************************************************)
NoRecords == [n \in {} |-> [healthy |-> FALSE]]

NoStatus == [shape |-> "noServices", entries |-> <<>>]

Constructed ==
    /\ lastCheck = "null"
    /\ intervalId = TRUE
    /\ consecutiveFailures = 0
    /\ overall = "healthy"
    /\ services = NoRecords
    /\ lastRecoveryAttempt = 0
    /\ recoveryCount = 0
    /\ fetches = 0
    /\ checkTimers = 1
    /\ recoveryTimers = [s \in Registered |-> 0]
    /\ calls = [s \in AsyncStrategies |-> 0]
    /\ running = {}
    /\ results = [i \in 1..MaxSysRec |-> Idle]
    /\ yielded = [i \in 1..MaxSysRec |-> "true"]
    /\ errorText = ""
    /\ errorVisible = FALSE
    /\ hideTimers = 0
    /\ escaped = FALSE

\* The application object after its constructor (app.js lines 3-56), which
\* assigns neither stt_service nor tts_service.
HandlesConstructed ==
    /\ stt_service = "undefined"
    /\ tts_service = "undefined"

\* Lines 10-21: the camera is off, its initialisation is scheduled (line
\* 39) and the welcome message has not been played.
CameraConstructed ==
    /\ videoStream = "null"
    /\ faceDetectionInterval = 0
    /\ intervals = {}
    /\ camera = "scheduled"
    /\ detections = 0
    /\ hasPlayedWelcome = FALSE
    /\ welcomes = 0

\* Lines 10-12: nothing is recorded; the constructor assigns neither
\* conversationState nor recordBtn.
RecordingConstructed ==
    /\ isRecording = FALSE
    /\ mediaRecorder = 0
    /\ recorders = [r \in 1..MaxRecorders |-> "none"]
    /\ starting = [mic |-> 0, analysis |-> 0]
    /\ loadingVisible = FALSE
    /\ conversationState = <<>>
    /\ recordBtn = "undefined"

\* Line 15: no placeholder, and no audio has been processed.
ChatConstructed ==
    /\ currentThinkingMessage = 0
    /\ placeholders = [i \in 1..MaxProcessing |-> "none"]
    /\ processing = [i \in 1..MaxProcessing |-> "idle"]

AppConstructed ==
    /\ HandlesConstructed /\ CameraConstructed /\ RecordingConstructed
    /\ ChatConstructed

Init ==
    /\ Constructed /\ status = NoStatus /\ prior = NoRecords /\ pc = "run"
    /\ AppConstructed

(***************************************************************************)
(* performHealthCheck                                                      *)
(***************************************************************************)
\* this.healthChecks.consecutiveFailures = 0 after a processed response
\* (line 75) and at the end of initiateSystemRecovery (line 327)
failuresAfterPoll == 0

\* A variant of initiateSystemRecovery that leaves the counter alone
failuresKept == consecutiveFailures

failuresAfterRecovery == 0

\* Lines 63-70: up to the await of fetch
startHealthCheck ==
    /\ fetches < MaxInFlight
    /\ lastCheck' = "set"
    /\ fetches' = fetches + 1

\* A variant in which the interval keeps firing after cleanup (the handle
\* is forgotten without clearInterval)
IntervalFiresAfterCleanup ==
    /\ startHealthCheck
    /\ UNCHANGED <<intervalId, consecutiveFailures, overall, services,
                   lastRecoveryAttempt, recoveryCount, checkTimers,
                   recoveryTimers, calls, running, results, yielded,
                   errorText, errorVisible, hideTimers, escaped>>

\* setInterval(() => this.performHealthCheck(), interval)
IntervalFires ==
    /\ intervalId
    /\ startHealthCheck
    /\ UNCHANGED <<intervalId, consecutiveFailures, overall, services,
                   lastRecoveryAttempt, recoveryCount, checkTimers,
                   recoveryTimers, calls, running, results, yielded,
                   errorText, errorVisible, hideTimers, escaped>>

\* setTimeout(() => this.performHealthCheck(), ...) of lines 56, 337, 349
CheckTimerFires ==
    /\ checkTimers > 0
    /\ checkTimers' = checkTimers - 1
    /\ startHealthCheck
    /\ UNCHANGED <<intervalId, consecutiveFailures, overall, services,
                   lastRecoveryAttempt, recoveryCount, recoveryTimers, calls,
                   running, results, yielded, errorText, errorVisible,
                   hideTimers, escaped>>

\* A variant of the catch block that escalates one failure early
catchBlockEager(st) ==
    /\ consecutiveFailures' = consecutiveFailures + 1
    /\ IF consecutiveFailures + 2 >= maxFailures
       THEN /\ FreeSlots # {}
            /\ \E oc \in SyncOutcomes :
               LET i == CHOOSE k \in FreeSlots : \A j \in FreeSlots : k <= j
                   r == systemRecoveryStart(st, oc)
               IN  /\ r.st.recoveryCount <= MaxRecoveryCount
                   /\ services' = r.st.services
                   /\ recoveryCount' = r.st.recoveryCount
                   /\ lastRecoveryAttempt' = r.st.lastRecoveryAttempt
                   /\ running' = running \cup {i}
                   /\ results' = [results EXCEPT ![i] = r.row]
                   /\ yielded' = [yielded EXCEPT ![i] = r.yielded]
                   /\ errorText' = "recovering"
                   /\ errorVisible' = r.visible
                   /\ escaped' = (escaped \/ r.threw)
       ELSE /\ services' = st.services
            /\ recoveryCount' = st.recoveryCount
            /\ lastRecoveryAttempt' = st.lastRecoveryAttempt
            /\ UNCHANGED <<running, results, yielded, errorText, errorVisible,
                           escaped>>

\* Lines 80-88 from status st (what the try block left): the counter, and
\* at the threshold initiateSystemRecovery as far as its await, the
\* synchronous strategies yielding any outcomes oc.
catchBlock(st) ==
    /\ consecutiveFailures' = consecutiveFailures + 1
    /\ IF consecutiveFailures + 1 >= maxFailures
       THEN /\ FreeSlots # {}
            /\ \E oc \in SyncOutcomes :
               LET i == CHOOSE k \in FreeSlots : \A j \in FreeSlots : k <= j
                   r == systemRecoveryStart(st, oc)
               IN  /\ r.st.recoveryCount <= MaxRecoveryCount
                   /\ services' = r.st.services
                   /\ recoveryCount' = r.st.recoveryCount
                   /\ lastRecoveryAttempt' = r.st.lastRecoveryAttempt
                   /\ running' = running \cup {i}
                   /\ results' = [results EXCEPT ![i] = r.row]
                   /\ yielded' = [yielded EXCEPT ![i] = r.yielded]
                   /\ errorText' = "recovering"
                   /\ errorVisible' = r.visible
                   /\ escaped' = (escaped \/ r.threw)
       ELSE /\ services' = st.services
            /\ recoveryCount' = st.recoveryCount
            /\ lastRecoveryAttempt' = st.lastRecoveryAttempt
            /\ UNCHANGED <<running, results, yielded, errorText, errorVisible,
                           escaped>>

\* The fetch rejects (network error) or the response is not OK: line 77
FetchFails ==
    /\ fetches > 0
    /\ fetches' = fetches - 1
    /\ catchBlock(statusNow)
    /\ UNCHANGED <<lastCheck, intervalId, overall, checkTimers,
                   recoveryTimers, calls, hideTimers>>

\* response.json() rejects, or processHealthCheckResults throws on body st
bodyThrows(st) ==
    \/ st.shape = "notJson"
    \/ processHealthCheckResults(st, services, recoveryTimers, overall).threw

\* The response is OK with body st: lines 72-75, and lines 80-88 when
\* response.json() or processHealthCheckResults throws.
FetchOk(st) ==
    /\ fetches > 0
    /\ fetches' = fetches - 1
    /\ LET r == processHealthCheckResults(st, services, recoveryTimers, overall)
       IN  IF st.shape = "notJson"
           THEN /\ catchBlock(statusNow)
                /\ UNCHANGED <<overall, recoveryTimers>>
           ELSE /\ \A s \in Registered : r.timers[s] <= MaxTimers
                /\ recoveryTimers' = r.timers
                /\ overall' = r.overall
                /\ IF r.threw
                   THEN catchBlock([statusNow EXCEPT !.services = r.services])
                   ELSE /\ services' = r.services
                        /\ consecutiveFailures' = failuresAfterPoll
                        /\ UNCHANGED <<lastRecoveryAttempt, recoveryCount,
                                       running, results, yielded, errorText,
                                       errorVisible, escaped>>
    /\ UNCHANGED <<lastCheck, intervalId, checkTimers, calls, hideTimers>>

(***************************************************************************)
(* recoverService calls                                                    *)
(***************************************************************************)
\* setTimeout(() => this.recoverService(s), 1000) fires for a strategy that
\* awaits: lines 134-143
RecoveryTimerFiresAsync(s) ==
    /\ s \in AsyncStrategies
    /\ recoveryTimers[s] > 0
    /\ calls[s] < MaxCalls
    /\ recoveryTimers' = [recoveryTimers EXCEPT ![s] = @ - 1]
    /\ calls' = [calls EXCEPT ![s] = @ + 1]
    /\ UNCHANGED <<lastCheck, intervalId, consecutiveFailures, overall,
                   services, lastRecoveryAttempt, recoveryCount, fetches,
                   checkTimers, running, results, yielded, errorText,
                   errorVisible, hideTimers, escaped>>

\* The same timer for a synchronous strategy yielding out: the whole of
\* recoverService, lines 134-159
RecoveryTimerFiresSync(s, out) ==
    /\ s \in SyncStrategies
    /\ recoveryTimers[s] > 0
    /\ recoveryTimers' = [recoveryTimers EXCEPT ![s] = @ - 1]
    /\ LET a == afterStrategy(statusNow, s, out)
       IN  /\ a.recoveryCount <= MaxRecoveryCount
           /\ services' = a.services
           /\ recoveryCount' = a.recoveryCount
           /\ lastRecoveryAttempt' = a.lastRecoveryAttempt
           /\ escaped' = (escaped \/ a.threw)
    /\ errorVisible' = IF strategyHidesError(s, out) THEN FALSE ELSE errorVisible
    /\ UNCHANGED <<lastCheck, intervalId, consecutiveFailures, overall,
                   fetches, checkTimers, calls, running, results, yielded,
                   errorText, hideTimers>>

\* The awaited strategy of a timer-started recoverService(s) yields out:
\* lines 145-159
TimerCallSettles(s, out) ==
    /\ s \in AsyncStrategies
    /\ calls[s] > 0
    /\ calls' = [calls EXCEPT ![s] = @ - 1]
    /\ LET a == afterStrategy(statusNow, s, out)
       IN  /\ a.recoveryCount <= MaxRecoveryCount
           /\ services' = a.services
           /\ recoveryCount' = a.recoveryCount
           /\ lastRecoveryAttempt' = a.lastRecoveryAttempt
           /\ escaped' = (escaped \/ a.threw)
    /\ UNCHANGED <<lastCheck, intervalId, consecutiveFailures, overall,
                   fetches, checkTimers, recoveryTimers, running, results,
                   yielded, errorText, errorVisible, hideTimers>>

\* The awaited strategy of recoverService(s) of system recovery i yields
\* out: lines 145-159 and 300-305; when it was the last one pending,
\* Promise.all resolves and lines 311-327 run in the same task.
SystemCallSettles(i, s, out) ==
    /\ i \in running
    /\ s \in AsyncStrategies
    /\ results[i][s] = "pending"
    /\ LET a == afterStrategy(statusNow, s, out)
           row == [results[i] EXCEPT ![s] = recovered(a)]
       IN  /\ a.recoveryCount <= MaxRecoveryCount
           /\ services' = a.services
           /\ recoveryCount' = a.recoveryCount
           /\ lastRecoveryAttempt' = a.lastRecoveryAttempt
           /\ escaped' = (escaped \/ a.threw)
           /\ results' = [results EXCEPT ![i] = row]
           /\ yielded' = [yielded EXCEPT ![i] = worstOf({@, out})]
           /\ IF \A x \in Registered : row[x] # "pending"
              THEN /\ outcomeNotice(row) = "success" => hideTimers < MaxHideTimers
                   /\ errorText' = outcomeNotice(row)
                   /\ errorVisible' = TRUE
                   /\ hideTimers' = IF outcomeNotice(row) = "success"
                                    THEN hideTimers + 1 ELSE hideTimers
                   /\ consecutiveFailures' = failuresAfterRecovery
                   /\ running' = running \ {i}
              ELSE UNCHANGED <<errorText, errorVisible, hideTimers,
                               consecutiveFailures, running>>
    /\ UNCHANGED <<lastCheck, intervalId, overall, fetches, checkTimers,
                   recoveryTimers, calls>>

\* recoverService(name) called for a name without a registered strategy:
\* lines 134-140
RecoverUnregistered(name) ==
    /\ name \in ServiceNames \ Registered
    /\ LET a == recoverService(statusNow, name, "true")
       IN  /\ services' = a.services
           /\ recoveryCount' = a.recoveryCount
           /\ lastRecoveryAttempt' = a.lastRecoveryAttempt
           /\ escaped' = (escaped \/ a.threw)
    /\ UNCHANGED <<lastCheck, intervalId, consecutiveFailures, overall,
                   fetches, checkTimers, recoveryTimers, calls, running,
                   results, yielded, errorText, errorVisible, hideTimers>>

(***************************************************************************)
(* The notice overlay (app.js) and the listeners of setupRecoveryListeners *)
(***************************************************************************)
\* setTimeout(() => this.app.hideError(), 3000) fires: app.js hideError
HideTimerFires ==
    /\ hideTimers > 0
    /\ hideTimers' = hideTimers - 1
    /\ errorVisible' = FALSE
    /\ UNCHANGED <<lastCheck, intervalId, consecutiveFailures, overall,
                   services, lastRecoveryAttempt, recoveryCount, fetches,
                   checkTimers, recoveryTimers, calls, running, results,
                   yielded, errorText, escaped>>

\* window 'online': lines 335-338
Online ==
    /\ checkTimers < MaxCheckTimers
    /\ checkTimers' = checkTimers + 1
    /\ UNCHANGED <<lastCheck, intervalId, consecutiveFailures, overall,
                   services, lastRecoveryAttempt, recoveryCount, fetches,
                   recoveryTimers, calls, running, results, yielded,
                   errorText, errorVisible, hideTimers, escaped>>

\* document 'visibilitychange' to the foreground (document.hidden is
\* false): lines 346-351.  A change to hidden does nothing.
BecomesVisible ==
    /\ checkTimers < MaxCheckTimers
    /\ checkTimers' = checkTimers + 1
    /\ UNCHANGED <<lastCheck, intervalId, consecutiveFailures, overall,
                   services, lastRecoveryAttempt, recoveryCount, fetches,
                   recoveryTimers, calls, running, results, yielded,
                   errorText, errorVisible, hideTimers, escaped>>

\* A variant of the 'offline' listener that also schedules a health check
OfflineSchedulesCheck ==
    /\ checkTimers < MaxCheckTimers
    /\ checkTimers' = checkTimers + 1
    /\ errorText' = "offline"
    /\ errorVisible' = TRUE
    /\ UNCHANGED <<lastCheck, intervalId, consecutiveFailures, overall,
                   services, lastRecoveryAttempt, recoveryCount, fetches,
                   recoveryTimers, calls, running, results, yielded,
                   hideTimers, escaped>>

\* window 'offline': lines 340-343, app.js showError
Offline ==
    /\ errorText' = "offline"
    /\ errorVisible' = TRUE
    /\ UNCHANGED <<lastCheck, intervalId, consecutiveFailures, overall,
                   services, lastRecoveryAttempt, recoveryCount, fetches,
                   checkTimers, recoveryTimers, calls, running, results,
                   yielded, hideTimers, escaped>>

\* document 'visibilitychange' to the background (document.hidden is true):
\* the test of line 347 fails and the listener does nothing.
BecomesHidden ==
    UNCHANGED <<lastCheck, intervalId, consecutiveFailures, overall,
                services, lastRecoveryAttempt, recoveryCount, fetches,
                checkTimers, recoveryTimers, calls, running, results,
                yielded, errorText, errorVisible, hideTimers, escaped>>

\* The user clicks errorCloseBtn: app.js lines 133-136, hideError
DismissError ==
    /\ errorVisible
    /\ errorVisible' = FALSE
    /\ UNCHANGED <<lastCheck, intervalId, consecutiveFailures, overall,
                   services, lastRecoveryAttempt, recoveryCount, fetches,
                   checkTimers, recoveryTimers, calls, running, results,
                   yielded, errorText, hideTimers, escaped>>

\* cleanup(): lines 367-377.  intervalId stands for the armed interval and
\* its handle together: clearInterval and the assignment of null.
cleanup ==
    /\ intervalId' = FALSE
    /\ UNCHANGED <<lastCheck, consecutiveFailures, overall, services,
                   lastRecoveryAttempt, recoveryCount, fetches, checkTimers,
                   recoveryTimers, calls, running, results, yielded,
                   errorText, errorVisible, hideTimers, escaped>>

(***************************************************************************)
(* Spec: polling and escalation.  The status endpoint is down, or answers  *)
(* with a body that names no service, so no service has a record.  Polls   *)
(* come from the interval, the initial timer and the two listeners, and    *)
(* system recoveries may overlap.                                          *)
(***************************************************************************)
Bare == StatusOver({}, Available, 0)

study == <<status, prior, pc>>

Next ==
    \/ IntervalFires /\ UNCHANGED <<study, app>>
    \/ CheckTimerFires /\ UNCHANGED <<study, app>>
    \/ Online /\ UNCHANGED <<study, app>>
    \/ BecomesVisible /\ UNCHANGED <<study, app>>
    \/ FetchFails /\ UNCHANGED <<study, app>>
    \/ \E st \in Bare : FetchOk(st) /\ UNCHANGED <<study, app>>
    \/ \E i \in 1..MaxSysRec, s \in Registered, out \in Outcomes :
           SystemCallSettles(i, s, out) /\ UNCHANGED <<study, app>>

Spec == Init /\ [][Next]_vars

(***************************************************************************)
(* SpecRecovery: system recovery when services have records.  It starts    *)
(* after the constructor, or after a first poll that reported all five     *)
(* registered services (each available or not) and whose scheduled         *)
(* recoveries have run and failed.  Every later poll fails, and no poll    *)
(* starts while a system recovery is in progress.                          *)
(***************************************************************************)
NoTimers == [s \in Registered |-> 0]

FirstPolls ==
    {[shape |-> "services",
      entries |-> [k \in 1..Len(StrategyOrder) |->
                      [name |-> StrategyOrder[k], available |-> av[k]]]] :
        av \in [1..Len(StrategyOrder) -> {"true", "false"}]}

AfterFirstPoll(st) ==
    LET r == processHealthCheckResults(st, NoRecords, NoTimers, "healthy") IN
    /\ lastCheck = "set"
    /\ intervalId = TRUE
    /\ consecutiveFailures = 0
    /\ overall = r.overall
    /\ services = r.services
    /\ lastRecoveryAttempt = 0
    /\ recoveryCount = 0
    /\ fetches = 0
    /\ checkTimers = 0
    /\ recoveryTimers = NoTimers
    /\ calls = [s \in AsyncStrategies |-> 0]
    /\ running = {}
    /\ results = [i \in 1..MaxSysRec |-> Idle]
    /\ yielded = [i \in 1..MaxSysRec |-> "true"]
    /\ errorText = ""
    /\ errorVisible = FALSE
    /\ hideTimers = 0
    /\ escaped = FALSE

InitRecovery ==
    /\ Constructed \/ \E st \in FirstPolls : AfterFirstPoll(st)
    /\ status = NoStatus /\ prior = NoRecords /\ pc = "run"
    /\ AppConstructed

NextRecovery ==
    \/ running = {} /\ IntervalFires /\ UNCHANGED <<study, app>>
    \/ running = {} /\ CheckTimerFires /\ UNCHANGED <<study, app>>
    \/ FetchFails /\ UNCHANGED <<study, app>>
    \/ \E i \in 1..MaxSysRec, s \in Registered, out \in Outcomes :
           SystemCallSettles(i, s, out) /\ UNCHANGED <<study, app>>
    \/ HideTimerFires /\ UNCHANGED <<study, app>>

SpecRecovery == InitRecovery /\ [][NextRecovery]_vars

(***************************************************************************)
(* SpecClassifier: one poll under study.  Before it at most MaxPrior       *)
(* services have a record (left by an earlier poll whose scheduled         *)
(* recoveries have run and failed); the response is OK with any body       *)
(* status naming up to MaxPayload of the services of ClassifierNames; then *)
(* the recoveries it scheduled run.                                        *)
(***************************************************************************)
ClassifierNames == {"tts", "conversation", "database"}

PriorMaps ==
    UNION {[D -> [healthy : BOOLEAN]] :
              D \in {X \in SUBSET ClassifierNames : Cardinality(X) <= MaxPrior}}

InitClassifier ==
    /\ prior \in PriorMaps
    /\ status \in StatusOver(ClassifierNames, Available, MaxPayload)
    /\ pc = "fetching"
    /\ lastCheck = "set"
    /\ intervalId = TRUE
    /\ consecutiveFailures = 0
    /\ overall = computeOverall(prior)
    /\ services = prior
    /\ lastRecoveryAttempt = 0
    /\ recoveryCount = 0
    /\ fetches = 1
    /\ checkTimers = 0
    /\ recoveryTimers = NoTimers
    /\ calls = [s \in AsyncStrategies |-> 0]
    /\ running = {}
    /\ results = [i \in 1..MaxSysRec |-> Idle]
    /\ yielded = [i \in 1..MaxSysRec |-> "true"]
    /\ errorText = ""
    /\ errorVisible = FALSE
    /\ hideTimers = 0
    /\ escaped = FALSE
    /\ AppConstructed

Recovering == pc \in {"processed", "recovering"} /\ pc' = "recovering"

NextClassifier ==
    \/ /\ pc = "fetching"
       /\ FetchOk(status)
       /\ pc' = "processed"
       /\ UNCHANGED <<status, prior, app>>
    \/ \E s \in Registered :
           RecoveryTimerFiresAsync(s) /\ Recovering /\ UNCHANGED <<status, prior, app>>
    \/ \E s \in Registered, out \in Outcomes :
           RecoveryTimerFiresSync(s, out) /\ Recovering /\ UNCHANGED <<status, prior, app>>
    \/ \E s \in Registered, out \in Outcomes :
           TimerCallSettles(s, out) /\ Recovering /\ UNCHANGED <<status, prior, app>>

SpecClassifier == InitClassifier /\ [][NextClassifier]_vars

(***************************************************************************)
(* SpecListeners: Spec with the rest of the environment.  The status       *)
(* endpoint is down or names no service; besides the timers and the        *)
(* listeners of Spec, the network goes offline, the tab goes to the        *)
(* background, the user dismisses the notice, and cleanup may be called at *)
(* any time.                                                               *)
(***************************************************************************)
NextListeners ==
    \/ IntervalFires /\ UNCHANGED <<study, app>>
    \/ CheckTimerFires /\ UNCHANGED <<study, app>>
    \/ Online /\ UNCHANGED <<study, app>>
    \/ BecomesVisible /\ UNCHANGED <<study, app>>
    \/ Offline /\ UNCHANGED <<study, app>>
    \/ BecomesHidden /\ UNCHANGED <<study, app>>
    \/ DismissError /\ UNCHANGED <<study, app>>
    \/ cleanup /\ UNCHANGED <<study, app>>
    \/ FetchFails /\ UNCHANGED <<study, app>>
    \/ \E st \in Bare : FetchOk(st) /\ UNCHANGED <<study, app>>
    \/ \E i \in 1..MaxSysRec, s \in Registered, out \in Outcomes :
           SystemCallSettles(i, s, out) /\ UNCHANGED <<study, app>>

SpecListeners == Init /\ [][NextListeners]_vars

(***************************************************************************)
(* SpecEscalation: the whole loop around two services.  Every poll either  *)
(* fails or reports tts and conversation, each available or not; their     *)
(* scheduled recoveries run, the listeners fire, the user dismisses the    *)
(* notice and recoverService is called for a name without a strategy.  No  *)
(* poll starts while a system recovery is in progress, and at most         *)
(* MaxRecoveries recoveries succeed.                                       *)
(***************************************************************************)
Reports ==
    {[shape |-> "services",
      entries |-> <<[name |-> "tts", available |-> a],
                    [name |-> "conversation", available |-> c]>>] :
        a \in {"true", "false"}, c \in {"true", "false"}}

Capped == recoveryCount' <= MaxRecoveries

NextEscalation ==
    \/ running = {} /\ IntervalFires /\ UNCHANGED <<study, app>>
    \/ running = {} /\ CheckTimerFires /\ UNCHANGED <<study, app>>
    \/ Online /\ UNCHANGED <<study, app>>
    \/ BecomesVisible /\ UNCHANGED <<study, app>>
    \/ Offline /\ UNCHANGED <<study, app>>
    \/ BecomesHidden /\ UNCHANGED <<study, app>>
    \/ DismissError /\ UNCHANGED <<study, app>>
    \/ FetchFails /\ Capped /\ UNCHANGED <<study, app>>
    \/ \E st \in Reports : FetchOk(st) /\ UNCHANGED <<study, app>>
    \/ \E s \in Registered : RecoveryTimerFiresAsync(s) /\ UNCHANGED <<study, app>>
    \/ \E s \in Registered, out \in Outcomes :
           RecoveryTimerFiresSync(s, out) /\ Capped /\ UNCHANGED <<study, app>>
    \/ \E s \in Registered, out \in Outcomes :
           TimerCallSettles(s, out) /\ Capped /\ UNCHANGED <<study, app>>
    \/ \E i \in 1..MaxSysRec, s \in Registered, out \in Outcomes :
           SystemCallSettles(i, s, out) /\ Capped /\ UNCHANGED <<study, app>>
    \/ \E n \in ServiceNames : RecoverUnregistered(n) /\ UNCHANGED <<study, app>>

SpecEscalation == Init /\ [][NextEscalation]_vars

(***************************************************************************)
(* SpecOverlap: a poll that arrives before the recoveries scheduled by the *)
(* poll before it have fired.  The earlier poll left the records prior and *)
(* one pending recovery for each unhealthy one with a strategy; the poll   *)
(* in flight reports up to MaxPayload services, each available or not;     *)
(* then all pending recoveries run, and every strategy succeeds.           *)
(***************************************************************************)
timersFrom(m) ==
    [s \in Registered |-> IF s \in DOMAIN m /\ ~m[s].healthy THEN 1 ELSE 0]

InitOverlap ==
    /\ prior \in PriorMaps
    /\ status \in StatusOver(ClassifierNames, {"true", "false"}, MaxPayload)
    /\ pc = "fetching"
    /\ lastCheck = "set"
    /\ intervalId = TRUE
    /\ consecutiveFailures = 0
    /\ overall = computeOverall(prior)
    /\ services = prior
    /\ lastRecoveryAttempt = 0
    /\ recoveryCount = 0
    /\ fetches = 1
    /\ checkTimers = 0
    /\ recoveryTimers = timersFrom(prior)
    /\ calls = [s \in AsyncStrategies |-> 0]
    /\ running = {}
    /\ results = [i \in 1..MaxSysRec |-> Idle]
    /\ yielded = [i \in 1..MaxSysRec |-> "true"]
    /\ errorText = ""
    /\ errorVisible = FALSE
    /\ hideTimers = 0
    /\ escaped = FALSE
    /\ AppConstructed

NextOverlap ==
    \/ /\ pc = "fetching"
       /\ FetchOk(status)
       /\ pc' = "processed"
       /\ UNCHANGED <<status, prior, app>>
    \/ \E s \in Registered :
           RecoveryTimerFiresAsync(s) /\ Recovering /\ UNCHANGED <<status, prior, app>>
    \/ \E s \in Registered :
           RecoveryTimerFiresSync(s, "true") /\ Recovering /\ UNCHANGED <<status, prior, app>>
    \/ \E s \in Registered :
           TimerCallSettles(s, "true") /\ Recovering /\ UNCHANGED <<status, prior, app>>

SpecOverlap == InitOverlap /\ [][NextOverlap]_vars

(***************************************************************************)
(* SpecTermination: SpecRecovery under the scheduling assumption that      *)
(* every strategy a system recovery has invoked eventually returns or      *)
(* throws: the continuation of a settled promise is eventually run.        *)
(***************************************************************************)
strategySettles(i) ==
    \E s \in Registered, out \in Outcomes :
        SystemCallSettles(i, s, out) /\ UNCHANGED <<study, app>>

SpecTermination ==
    /\ InitRecovery
    /\ [][NextRecovery]_vars
    /\ \A i \in 1..MaxSysRec : WF_vars(strategySettles(i))

(***************************************************************************)
(* The strategies of the transcription and speech-synthesis services       *)
(***************************************************************************)
Handle == {"undefined", "null", "handle"}

\* What awaiting app.checkServiceStatus() does: it leaves a handle, it
\* leaves none, or it throws.
ProbeOutcomes == {"sets", "none", "throws"}

\* if (this.app.stt_service) this.app.stt_service = null: lines 168-170,
\* and lines 210-212 for tts_service
discarded(h) == IF h = "handle" THEN "null" ELSE h

\* The handle after the probe with outcome p
probed(h, p) == IF p = "sets" THEN "handle" ELSE h

\* recoverTTSService from its await on, lines 215-223, the probe having
\* outcome p
recoverTTSService(p) == IF p = "throws" THEN "false" ELSE "true"

\* recoverTranscriptionService from its await on, lines 173-184: h is the
\* handle when the probe ends with outcome p; undefined !== null is true.
recoverTranscriptionService(h, p) ==
    IF p = "throws" THEN "false"
    ELSE IF h # "null" THEN "true" ELSE "false"

\* The 1000 ms timer of line 111 fires for tts: recoverService as far as
\* the await of the probe, lines 134-145 and 207-215
recoverTTSServiceStarts ==
    /\ RecoveryTimerFiresAsync("tts")
    /\ tts_service' = discarded(tts_service)
    /\ UNCHANGED <<stt_service, cameraVars, recordingVars, chatVars>>

\* The probe of that call ends with outcome p: lines 215-223, then lines
\* 145-159
recoverTTSServiceSettles(p) ==
    /\ TimerCallSettles("tts", recoverTTSService(p))
    /\ tts_service' = probed(tts_service, p)
    /\ UNCHANGED <<stt_service, cameraVars, recordingVars, chatVars>>

\* The same timer for transcription: lines 134-145 and 165-173
recoverTranscriptionServiceStarts ==
    /\ RecoveryTimerFiresAsync("transcription")
    /\ stt_service' = discarded(stt_service)
    /\ UNCHANGED <<tts_service, cameraVars, recordingVars, chatVars>>

\* Its probe ends with outcome p: lines 173-184, then lines 145-159
recoverTranscriptionServiceSettles(p) ==
    /\ stt_service' = probed(stt_service, p)
    /\ TimerCallSettles("transcription",
                        recoverTranscriptionService(probed(stt_service, p), p))
    /\ UNCHANGED <<tts_service, cameraVars, recordingVars, chatVars>>

(***************************************************************************)
(* SpecHandles: the recoveries of transcription and tts that one poll has  *)
(* scheduled.  The poll reported both services, each available or not; the *)
(* application holds any handle, or none, for each; every probe ends with  *)
(* any of its outcomes.                                                    *)
(***************************************************************************)
HandlePolls ==
    {[shape |-> "services",
      entries |-> <<[name |-> "transcription", available |-> a],
                    [name |-> "tts", available |-> b]>>] :
        a \in {"true", "false"}, b \in {"true", "false"}}

AfterPoll(st) ==
    LET r == processHealthCheckResults(st, NoRecords, NoTimers, "healthy") IN
    /\ lastCheck = "set"
    /\ intervalId = TRUE
    /\ consecutiveFailures = failuresAfterPoll
    /\ overall = r.overall
    /\ services = r.services
    /\ lastRecoveryAttempt = 0
    /\ recoveryCount = 0
    /\ fetches = 0
    /\ checkTimers = 0
    /\ recoveryTimers = r.timers
    /\ calls = [s \in AsyncStrategies |-> 0]
    /\ running = {}
    /\ results = [i \in 1..MaxSysRec |-> Idle]
    /\ yielded = [i \in 1..MaxSysRec |-> "true"]
    /\ errorText = ""
    /\ errorVisible = FALSE
    /\ hideTimers = 0
    /\ escaped = FALSE
    /\ status = st /\ prior = NoRecords /\ pc = "processed"

InitHandles ==
    /\ \E st \in HandlePolls : AfterPoll(st)
    /\ stt_service \in Handle
    /\ tts_service \in Handle
    /\ CameraConstructed /\ RecordingConstructed /\ ChatConstructed

NextHandles ==
    \/ recoverTTSServiceStarts /\ UNCHANGED study
    \/ \E p \in ProbeOutcomes : recoverTTSServiceSettles(p) /\ UNCHANGED study
    \/ recoverTranscriptionServiceStarts /\ UNCHANGED study
    \/ \E p \in ProbeOutcomes :
           recoverTranscriptionServiceSettles(p) /\ UNCHANGED study

SpecHandles == InitHandles /\ [][NextHandles]_vars

(***************************************************************************)
(* The application: camera, face detection and the welcome message         *)
(* (frontend/app.js)                                                       *)
(***************************************************************************)
\* The health monitor's state apart from the notice overlay
monitorVars ==
    <<lastCheck, intervalId, consecutiveFailures, overall, services,
      lastRecoveryAttempt, recoveryCount, fetches, checkTimers,
      recoveryTimers, calls, running, results, yielded, hideTimers, escaped>>

\* The ids setInterval can return next: not those of live timers, and not
\* the one app.faceDetectionInterval still holds
FreeIds == (1..MaxIntervals) \ (intervals \cup {faceDetectionInterval})

\* startRealFaceDetection, app.js lines 901-913: a new interval, whose id
\* overwrites app.faceDetectionInterval
startRealFaceDetection ==
    /\ FreeIds # {}
    /\ LET id == CHOOSE k \in FreeIds : \A j \in FreeIds : k <= j
       IN  /\ faceDetectionInterval' = id
           /\ intervals' = intervals \cup {id}

\* The 500 ms timer of the constructor fires: initializeCamera as far as
\* the await of getUserMedia, app.js lines 39-41 and 807-840
CameraTimerFires ==
    /\ camera = "scheduled"
    /\ camera' = "asking"
    /\ UNCHANGED <<videoStream, faceDetectionInterval, intervals, detections,
                   hasPlayedWelcome, welcomes>>
    /\ UNCHANGED <<progVars, handleVars, chatVars, recordingVars>>

\* getUserMedia resolves: lines 840-848, as far as the await of the video
\* metadata
CameraGranted ==
    /\ camera = "asking"
    /\ videoStream' = "stream"
    /\ camera' = "loading"
    /\ UNCHANGED <<faceDetectionInterval, intervals, detections,
                   hasPlayedWelcome, welcomes>>
    /\ UNCHANGED <<progVars, handleVars, chatVars, recordingVars>>

\* getUserMedia rejects, or the video metadata do not load: the catch of
\* lines 888-898
CameraFails ==
    /\ camera \in {"asking", "loading"}
    /\ camera' = "failed"
    /\ UNCHANGED <<videoStream, faceDetectionInterval, intervals, detections,
                   hasPlayedWelcome, welcomes>>
    /\ UNCHANGED <<progVars, handleVars, chatVars, recordingVars>>

\* The video is ready and play() has settled: lines 865-884
CameraReady ==
    /\ camera = "loading"
    /\ camera' = "running"
    /\ startRealFaceDetection
    /\ UNCHANGED <<videoStream, detections, hasPlayedWelcome, welcomes>>
    /\ UNCHANGED <<progVars, handleVars, chatVars, recordingVars>>

\* The live interval k fires: performFaceDetection as far as the await of
\* fetch, lines 903-953 (it returns at line 920 without a stream)
IntervalTick(k) ==
    /\ k \in intervals
    /\ videoStream # "null"
    /\ detections < MaxDetections
    /\ detections' = detections + 1
    /\ UNCHANGED <<videoStream, faceDetectionInterval, intervals, camera,
                   hasPlayedWelcome, welcomes>>
    /\ UNCHANGED <<progVars, handleVars, chatVars, recordingVars>>

\* What the detection endpoint answers: a face with is_first_detection, a
\* face without it, or anything else (no face, an error, no answer)
DetectionResults == {"first", "face", "other"}

\* A variant of lines 978-982 that does not read hasPlayedWelcome
playsWelcomeOnEveryFirst(r) == r = "first"

\* Lines 978: the welcome message is to be played
playsWelcome(r) == r = "first" /\ ~hasPlayedWelcome

\* The response of a detection arrives with result r: lines 963-1010
DetectionResponds(r) ==
    /\ detections > 0
    /\ detections' = detections - 1
    /\ IF playsWelcome(r)
       THEN /\ welcomes < MaxWelcomes
            /\ welcomes' = welcomes + 1
            /\ hasPlayedWelcome' = TRUE
       ELSE UNCHANGED <<welcomes, hasPlayedWelcome>>
    /\ UNCHANGED <<videoStream, faceDetectionInterval, intervals, camera>>
    /\ UNCHANGED <<progVars, handleVars, chatVars, recordingVars>>

\* A variant of recoverFaceDetectionService that reports success always
recoverFaceDetectionServiceAlways(vs) == "true"

\* The value recoverFaceDetectionService returns after its delay, lines
\* 241-246, videoStream being vs
recoverFaceDetectionService(vs) == IF vs # "null" THEN "true" ELSE "false"

\* The 1000 ms timer of line 111 fires for face_detection: recoverService
\* as far as the 2000 ms delay, lines 134-145 and 229-238
recoverFaceDetectionServiceStarts ==
    /\ RecoveryTimerFiresAsync("face_detection")
    /\ intervals' = intervals \ {faceDetectionInterval}
    /\ faceDetectionInterval' = 0
    /\ UNCHANGED <<videoStream, camera, detections, hasPlayedWelcome, welcomes>>
    /\ UNCHANGED <<handleVars, chatVars, recordingVars>>

\* The delay of that call ends: lines 241-246, then lines 145-159
recoverFaceDetectionServiceSettles ==
    /\ TimerCallSettles("face_detection",
                        recoverFaceDetectionService(videoStream))
    /\ IF videoStream # "null"
       THEN startRealFaceDetection
       ELSE UNCHANGED <<faceDetectionInterval, intervals>>
    /\ UNCHANGED <<videoStream, camera, detections, hasPlayedWelcome, welcomes>>
    /\ UNCHANGED <<handleVars, chatVars, recordingVars>>

\* stopRecording, app.js lines 509-545.  stop() of a recorder that is not
\* recording either does nothing or throws before line 514, depending on
\* the browser; no caller catches that.
stopRecording ==
    IF mediaRecorder # 0 /\ isRecording
    THEN IF recorders[mediaRecorder] = "recording"
         THEN /\ recorders' = [recorders EXCEPT ![mediaRecorder] = "inactive"]
              /\ isRecording' = FALSE
         ELSE /\ isRecording' \in {FALSE, isRecording}
              /\ UNCHANGED recorders
    ELSE UNCHANGED <<isRecording, recorders>>

\* cleanup of the application, app.js lines 1213-1230, on beforeunload: the
\* interval is cleared but its id is kept, the tracks of the stream are
\* stopped but the stream is kept, a recording is stopped.
appCleanup ==
    /\ intervals' = intervals \ {faceDetectionInterval}
    /\ videoStream' = IF videoStream = "null" THEN "null" ELSE "stopped"
    /\ IF isRecording THEN stopRecording ELSE UNCHANGED <<isRecording, recorders>>
    /\ UNCHANGED <<faceDetectionInterval, camera, detections, hasPlayedWelcome,
                   welcomes, mediaRecorder, starting, loadingVisible,
                   conversationState, recordBtn>>
    /\ UNCHANGED <<progVars, handleVars, chatVars>>

(***************************************************************************)
(* SpecCamera: the camera and the recovery of face_detection.  The camera  *)
(* is initialised after the constructor; polls report face_detection       *)
(* available or not, the recoveries they schedule run, the detection       *)
(* interval fires and its requests are answered in any order, and the page *)
(* may be unloaded.  At most MaxRecoveries recoveries succeed.             *)
(***************************************************************************)
CameraPolls ==
    {[shape |-> "services",
      entries |-> <<[name |-> "face_detection", available |-> a]>>] :
        a \in {"true", "false"}}

NextCamera ==
    \/ IntervalFires /\ UNCHANGED <<study, app>>
    \/ CheckTimerFires /\ UNCHANGED <<study, app>>
    \/ \E st \in CameraPolls : FetchOk(st) /\ UNCHANGED <<study, app>>
    \/ CameraTimerFires /\ UNCHANGED study
    \/ CameraGranted /\ UNCHANGED study
    \/ CameraFails /\ UNCHANGED study
    \/ CameraReady /\ UNCHANGED study
    \/ \E k \in 1..MaxIntervals : IntervalTick(k) /\ UNCHANGED study
    \/ \E r \in DetectionResults : DetectionResponds(r) /\ UNCHANGED study
    \/ recoverFaceDetectionServiceStarts /\ UNCHANGED study
    \/ recoverFaceDetectionServiceSettles /\ Capped /\ UNCHANGED study
    \/ appCleanup /\ UNCHANGED study

SpecCamera == Init /\ [][NextCamera]_vars

(***************************************************************************)
(* The application: microphone recording, and the conversation strategy    *)
(***************************************************************************)
\* showError(message), app.js lines 1149-1159: the text, the overlay, and
\* hideLoading
showError(message) ==
    /\ errorText' = message
    /\ errorVisible' = TRUE
    /\ loadingVisible' = FALSE

InProgress == starting.mic + starting.analysis

\* The recorders not yet created
Unused == {r \in 1..MaxRecorders : recorders[r] = "none"}

\* Lines 365-404 of startRecording: start(1000) of the recorder that
\* app.mediaRecorder refers to now, which throws when that recorder is
\* already recording (the catch of line 408 then shows an error).
startsRecorder(rec) ==
    IF rec[mediaRecorder'] = "inactive"
    THEN /\ recorders' = [rec EXCEPT ![mediaRecorder'] = "recording"]
         /\ isRecording' = TRUE
         /\ UNCHANGED <<errorText, errorVisible, loadingVisible>>
    ELSE /\ recorders' = rec
         /\ UNCHANGED isRecording
         /\ showError("recording")

\* A click on the microphone button: toggleRecording, lines 330-336; when
\* not recording, startRecording as far as the await of getUserMedia
toggleRecording ==
    /\ IF isRecording
       THEN stopRecording /\ UNCHANGED starting
       ELSE /\ InProgress < MaxStarting
            /\ starting' = [starting EXCEPT !.mic = @ + 1]
            /\ UNCHANGED <<isRecording, recorders>>
    /\ UNCHANGED <<mediaRecorder, loadingVisible, conversationState, recordBtn>>
    /\ UNCHANGED <<progVars, handleVars, chatVars, cameraVars>>

\* getUserMedia resolves for a startRecording call: lines 353-363, the new
\* recorder replacing the reference; when setupAudioAnalysis has nothing
\* to wait for (inline), lines 365-404 follow in the same task.
MicGranted(inline) ==
    /\ starting.mic > 0
    /\ Unused # {}
    /\ LET r == CHOOSE k \in Unused : \A j \in Unused : k <= j
           created == [recorders EXCEPT ![r] = "inactive"]
       IN  /\ mediaRecorder' = r
           /\ IF inline
              THEN /\ starting' = [starting EXCEPT !.mic = @ - 1]
                   /\ startsRecorder(created)
              ELSE /\ starting' = [starting EXCEPT !.mic = @ - 1,
                                                   !.analysis = @ + 1]
                   /\ recorders' = created
                   /\ UNCHANGED <<isRecording, errorText, errorVisible,
                                  loadingVisible>>
    /\ UNCHANGED <<conversationState, recordBtn>>
    /\ UNCHANGED <<monitorVars, handleVars, chatVars, cameraVars>>

\* getUserMedia rejects: the catch of lines 408-418
MicDenied ==
    /\ starting.mic > 0
    /\ starting' = [starting EXCEPT !.mic = @ - 1]
    /\ showError("recording")
    /\ UNCHANGED <<isRecording, mediaRecorder, recorders, conversationState,
                   recordBtn>>
    /\ UNCHANGED <<monitorVars, handleVars, chatVars, cameraVars>>

\* setupAudioAnalysis of a startRecording call has settled: lines 365-404
AnalysisDone ==
    /\ starting.analysis > 0
    /\ starting' = [starting EXCEPT !.analysis = @ - 1]
    /\ mediaRecorder' = mediaRecorder
    /\ startsRecorder(recorders)
    /\ UNCHANGED <<conversationState, recordBtn>>
    /\ UNCHANGED <<monitorVars, handleVars, chatVars, cameraVars>>

\* The steps of the conversation workflow, and the error counts
WorkflowSteps == {"IDLE", "LISTENING"}

ConversationStates ==
    [isActive : BOOLEAN, currentStep : WorkflowSteps, errorCount : 0..MaxErrors]

\* Lines 260-262: the state the strategy writes
ResetState == [isActive |-> FALSE, currentStep |-> "IDLE", errorCount |-> 0]

\* The value recoverConversationFlow returns, lines 254-286:
\* app.conversationState being undefined, line 260 throws a TypeError and
\* the catch returns false.
recoverConversationFlow(cs) == IF cs = <<>> THEN "false" ELSE "true"

\* The 1000 ms timer of line 111 fires for conversation: the whole of
\* recoverService, lines 134-159, with recoverConversationFlow
recoverConversationFlowRuns ==
    LET out == recoverConversationFlow(conversationState) IN
    /\ RecoveryTimerFiresSync("conversation", out)
    /\ IF out = "true"
       THEN /\ conversationState' = <<ResetState>>
            /\ IF isRecording
               THEN stopRecording
               ELSE UNCHANGED <<isRecording, recorders>>
            /\ loadingVisible' = FALSE
            /\ recordBtn' = IF recordBtn = "undefined" THEN recordBtn
                            ELSE "enabled"
       ELSE UNCHANGED <<conversationState, isRecording, recorders,
                        loadingVisible, recordBtn>>
    /\ UNCHANGED <<mediaRecorder, starting, handleVars, chatVars, cameraVars>>

(***************************************************************************)
(* SpecRecording: the microphone button and the recovery of conversation.  *)
(* The application has a conversation state or none, a record button or    *)
(* none, and the loading overlay shown or hidden; the user clicks the      *)
(* microphone button at any time, access to the microphone is granted or   *)
(* denied in any order, a first poll reports conversation available or     *)
(* not, and the recovery it schedules runs.                                *)
(***************************************************************************)
ConversationPolls ==
    {[shape |-> "services",
      entries |-> <<[name |-> "conversation", available |-> a]>>] :
        a \in {"true", "false"}}

InitRecording ==
    /\ \E st \in ConversationPolls : AfterPoll(st)
    /\ HandlesConstructed /\ CameraConstructed /\ ChatConstructed
    /\ isRecording = FALSE
    /\ mediaRecorder = 0
    /\ recorders = [r \in 1..MaxRecorders |-> "none"]
    /\ starting = [mic |-> 0, analysis |-> 0]
    /\ loadingVisible \in BOOLEAN
    /\ conversationState \in {<<>>} \cup {<<c>> : c \in ConversationStates}
    /\ recordBtn \in {"undefined", "enabled", "disabled"}

NextRecording ==
    \/ toggleRecording /\ UNCHANGED study
    \/ \E inline \in BOOLEAN : MicGranted(inline) /\ UNCHANGED study
    \/ MicDenied /\ UNCHANGED study
    \/ AnalysisDone /\ UNCHANGED study
    \/ recoverConversationFlowRuns /\ UNCHANGED study

SpecRecording == InitRecording /\ [][NextRecording]_vars

(***************************************************************************)
(* The application: processAudio and its placeholder message               *)
(***************************************************************************)
\* What transcribeAudio and generateResponse yield: a text, nothing usable
\* (empty or missing), or an exception in processAudio's try block
StepOutcomes == {"text", "empty", "throws"}

Waiting == {i \in 1..MaxProcessing : processing[i] = "idle"}

\* updateThinkingMessage(text), lines 238-251, called by processAudio call
\* i: the placeholder app.currentThinkingMessage refers to gets the text
\* (unseen when that element has been removed from the chat)
updateThinkingMessage(i) ==
    IF currentThinkingMessage # 0
    THEN /\ placeholders' =
                [placeholders EXCEPT ![currentThinkingMessage] =
                    IF @ = "removed" THEN @ ELSE "replaced"]
         /\ currentThinkingMessage' = 0
    ELSE UNCHANGED <<placeholders, currentThinkingMessage>>

\* processAudio(audioBlob) is called, by the stop event of a recorder
\* (line 384) or by a file upload (line 300): lines 605-616, as far as the
\* await of transcribeAudio
processAudioStarts ==
    /\ Waiting # {}
    /\ LET i == CHOOSE k \in Waiting : \A j \in Waiting : k <= j
       IN  /\ placeholders' = [placeholders EXCEPT ![i] = "thinking"]
           /\ currentThinkingMessage' = i
           /\ processing' = [processing EXCEPT ![i] = "transcribing"]
    /\ UNCHANGED <<progVars, handleVars, cameraVars, recordingVars>>

\* transcribeAudio of call i yields r: lines 616-624, or the catch of
\* lines 645-652
Transcribed(i, r) ==
    /\ processing[i] = "transcribing"
    /\ IF r = "text"
       THEN /\ processing' = [processing EXCEPT ![i] = "generating"]
            /\ UNCHANGED <<placeholders, currentThinkingMessage>>
       ELSE /\ processing' = [processing EXCEPT ![i] = "done"]
            /\ updateThinkingMessage(i)
    /\ UNCHANGED <<progVars, handleVars, cameraVars, recordingVars>>

\* generateResponse of call i yields r: lines 624-643 (the call's own
\* placeholder is removed), or lines 627-628, or the catch
Generated(i, r) ==
    /\ processing[i] = "generating"
    /\ processing' = [processing EXCEPT ![i] = "done"]
    /\ IF r = "text"
       THEN /\ placeholders' = [placeholders EXCEPT ![i] = "removed"]
            /\ UNCHANGED currentThinkingMessage
       ELSE updateThinkingMessage(i)
    /\ UNCHANGED <<progVars, handleVars, cameraVars, recordingVars>>

(***************************************************************************)
(* SpecChat: up to MaxProcessing calls of processAudio, started at any     *)
(* time (a recording that stops, a file that is uploaded), their requests  *)
(* answered in any order with any outcome.                                 *)
(***************************************************************************)
NextChat ==
    \/ processAudioStarts /\ UNCHANGED study
    \/ \E i \in 1..MaxProcessing, r \in StepOutcomes :
           Transcribed(i, r) /\ UNCHANGED study
    \/ \E i \in 1..MaxProcessing, r \in StepOutcomes :
           Generated(i, r) /\ UNCHANGED study

SpecChat == Init /\ [][NextChat]_vars

(***************************************************************************)
(* Properties                                                              *)
(***************************************************************************)
Slots == 1..MaxSysRec

\* System recovery i ends in this step (lines 311-327 have run).
Ends(i) == i \in running /\ i \notin running'

\* System recovery i starts in this step (lines 292-308).
Starts(i) == i \notin running /\ i \in running'

\* C1: initiateSystemRecovery starts once per failure streak that reaches
\* maxFailures: a further poll failure starts no second system recovery,
\* so two system recoveries are never in progress at the same time.
C1_OneSystemRecoveryAtATime == Cardinality(running) <= 1

\* C2: when three polls in a row have failed and all five strategies have
\* returned true, the system recovery ends with the success notice shown,
\* the 3000 ms timer that hides it armed, and consecutiveFailures 0; this
\* from any state, also when no poll has succeeded yet.
C2_AllTrueEndsInSuccess ==
    [][\A i \in Slots :
          Ends(i) /\ yielded'[i] = "true" =>
              /\ errorText' = "success"
              /\ errorVisible'
              /\ hideTimers' = hideTimers + 1
              /\ consecutiveFailures' = 0]_vars

\* C3: whenever the strategy of a registered service reports success,
\* recoverService returns true, the record of the service is healthy,
\* lastRecoveryAttempt is set and recoveryCount has grown by exactly one,
\* whether or not the service had a record.
C3_SuccessIsRecorded ==
    [][\A i \in Slots, s \in AsyncStrategies :
          SystemCallSettles(i, s, "true") =>
              /\ results'[i][s] = "true"
              /\ s \in DOMAIN services'
              /\ services'[s].healthy
              /\ lastRecoveryAttempt' # 0
              /\ recoveryCount' = recoveryCount + 1]_vars

\* C4: in every state in which some service has a record, overall is
\* 'healthy' iff every record is healthy, 'critical' iff at most half of
\* the records are healthy, and 'degraded' otherwise.
C4_OverallMatchesRecords ==
    services # NoRecords =>
        /\ overall = "healthy" <=>
               healthyServices(services) = totalServices(services)
        /\ overall = "critical" <=>
               2 * healthyServices(services) <= totalServices(services)
        /\ overall = "degraded" <=>
               /\ healthyServices(services) # totalServices(services)
               /\ 2 * healthyServices(services) > totalServices(services)

\* The services a body names, and those it reports as not available: true.
namesOf(st) == {st.entries[k].name : k \in 1..Len(st.entries)}

unavailableIn(st) ==
    {st.entries[k].name : k \in {j \in 1..Len(st.entries) :
                                     st.entries[j].available # "true"}}

\* The body is a JSON object; every service it names is an object.
IsObject(st) == st.shape \in {"services", "noServices"}

WellFormed(st) ==
    IsObject(st) /\ \A k \in 1..Len(st.entries) : st.entries[k].available # "null"

AllAvailable(st) == IsObject(st) /\ unavailableIn(st) = {}

\* The state right after processHealthCheckResults has run on status.
Processed == pc = "processed"

\* C5 as stated: for every prior services map and every payload in which
\* every service present reports available: true, overall is 'healthy'
\* right after processHealthCheckResults.
C5_AllAvailableIsHealthy ==
    Processed /\ AllAvailable(status) => overall = "healthy"

\* C5 as amended: for such a payload overall is 'healthy' right after
\* processHealthCheckResults iff every record of a service the payload does
\* not name was healthy before.
C5_AllAvailableHealthyIffRestHealthy ==
    Processed /\ AllAvailable(status) =>
        (overall = "healthy" <=>
            \A n \in DOMAIN prior \ namesOf(status) : prior[n].healthy)

C5_Witness ==
    /\ Processed
    /\ AllAvailable(status)
    /\ Len(status.entries) >= 2
    /\ \E n \in DOMAIN prior \ namesOf(status) : prior[n].healthy
    /\ overall = "healthy"

\* C6 as stated: from an empty services map, overall becomes 'critical' if
\* available is false for strictly more than half of the services of the
\* payload, and otherwise 'degraded' if at least one service is unhealthy,
\* also when exactly half of them are.
C6_MoreThanHalfIsCritical ==
    Processed /\ prior = NoRecords /\ WellFormed(status) =>
        LET bad == Cardinality(unavailableIn(status))
            all == Cardinality(namesOf(status))
        IN  /\ 2 * bad > all => overall = "critical"
            /\ bad > 0 /\ 2 * bad <= all => overall = "degraded"

\* C6 as amended: from an empty services map and a payload whose service
\* entries are objects, overall becomes 'critical' if available is not true
\* for at least half of the services, exactly half included, and otherwise
\* 'degraded' if at least one service is unhealthy.
C6_AtLeastHalfIsCritical ==
    Processed /\ prior = NoRecords /\ WellFormed(status) =>
        LET bad == Cardinality(unavailableIn(status))
            all == Cardinality(namesOf(status))
        IN  /\ bad > 0 /\ 2 * bad >= all => overall = "critical"
            /\ bad > 0 /\ 2 * bad < all => overall = "degraded"

C6_Witness ==
    /\ Processed
    /\ prior = NoRecords
    /\ WellFormed(status)
    /\ Cardinality(namesOf(status)) = 2
    /\ Cardinality(unavailableIn(status)) = 1
    /\ overall = "critical"

\* The body with every missing available field written as available: false.
missingAsFalse(st) ==
    [st EXCEPT !.entries =
        [k \in 1..Len(st.entries) |->
            IF st.entries[k].available = "missing"
            THEN [st.entries[k] EXCEPT !.available = "false"]
            ELSE st.entries[k]]]

\* C7: processing a payload in which a service has no available field
\* leaves the same healthy flags, the same overall and the same scheduled
\* recoveries as processing it with available: false for that service.
C7_MissingIsFalse ==
    Processed =>
        LET r == processHealthCheckResults(missingAsFalse(status), prior,
                                           NoTimers, computeOverall(prior))
        IN  /\ services = r.services
            /\ overall = r.overall
            /\ recoveryTimers = r.timers

C7_Witness ==
    /\ Processed
    /\ \E k \in 1..Len(status.entries) :
           /\ status.entries[k].available = "missing"
           /\ status.entries[k].name \in Registered
           /\ recoveryTimers[status.entries[k].name] = 1
           /\ ~services[status.entries[k].name].healthy
    /\ overall = "degraded"

\* The body deviates from the expected shape in one of the ways C8 names.
Deviates(st) ==
    \/ st.shape = "noServices"
    \/ /\ st.shape = "services"
       /\ \E k \in 1..Len(st.entries) :
              st.entries[k].available \in {"missing", "nonbool", "null"}

\* C8: an OK response whose body has no services field, a null or
\* non-object service entry or a non-boolean available is not counted as a
\* poll failure and starts no system recovery, and each service so affected
\* is recorded as unhealthy.
C8_MalformedBodyIsNoFailure ==
    Processed /\ Deviates(status) =>
        /\ consecutiveFailures = 0
        /\ running = {}
        /\ \A k \in 1..Len(status.entries) :
               status.entries[k].available \in {"missing", "nonbool", "null"} =>
                   /\ status.entries[k].name \in DOMAIN services
                   /\ ~services[status.entries[k].name].healthy

\* C9: consecutiveFailures is 0 right after every poll that completes
\* successfully and right after every initiateSystemRecovery ends, however
\* many strategies succeeded.
C9_FailuresResetToZero ==
    [][/\ (\E st \in Bare : FetchOk(st) /\ ~bodyThrows(st)) =>
              consecutiveFailures' = 0
       /\ (\E i \in Slots : Ends(i)) => consecutiveFailures' = 0]_vars

C9_Witness ==
    /\ errorText = "failure"
    /\ running = {}
    /\ \E i \in Slots : yielded[i] # "true" /\ results[i] # Idle
    /\ consecutiveFailures = 0

\* C10: in a system recovery a strategy that throws gives its service the
\* result recovered: false and leaves the other services' calls as they
\* were, every strategy has been invoked when the recovery starts, the
\* recovery ends with one true or false result for each registered service,
\* and no exception leaves recoverService, initiateSystemRecovery or
\* performHealthCheck.
C10_ThrowIsContained ==
    [][/\ \A i \in Slots, s \in AsyncStrategies :
              SystemCallSettles(i, s, "throw") =>
                  /\ results'[i][s] = "false"
                  /\ \A x \in Registered \ {s} : results'[i][x] = results[i][x]
       /\ \A i \in Slots :
              Starts(i) =>
                  \A s \in Registered :
                      results'[i][s] \in {"pending", "true", "false"}
       /\ \A i \in Slots :
              Ends(i) =>
                  \A s \in Registered : results'[i][s] \in {"true", "false"}
       /\ ~escaped']_vars

C10_Witness ==
    \E i \in Slots :
        /\ i \notin running
        /\ yielded[i] = "throw"
        /\ \E s \in Registered : results[i][s] = "true"
        /\ \E s \in Registered : results[i][s] = "false"
        /\ errorText = "partial"
        /\ ~escaped

\* C11: recoverService for a name without a registered strategy returns
\* false, throws nothing and leaves the services map, overall,
\* lastRecoveryAttempt, recoveryCount and the health-check state as they
\* were; and a recoverService whose strategy returns a falsy value or
\* throws leaves recoveryCount and lastRecoveryAttempt as they were.
C11_NoStrategyNoEffect ==
    [][/\ \A n \in ServiceNames \ Registered :
              RecoverUnregistered(n) =>
                  /\ ~recoverService(statusNow, n, "true").ret
                  /\ ~recoverService(statusNow, n, "true").threw
                  /\ ~escaped'
                  /\ UNCHANGED <<services, overall, lastRecoveryAttempt,
                                 recoveryCount, lastCheck, intervalId,
                                 consecutiveFailures>>
       /\ \A s \in Registered, out \in {"false", "throw"} :
              \/ RecoveryTimerFiresSync(s, out)
              \/ TimerCallSettles(s, out)
              \/ \E i \in Slots : SystemCallSettles(i, s, out)
              => UNCHANGED <<recoveryCount, lastRecoveryAttempt>>]_vars

C11_Witness ==
    /\ "tts" \in DOMAIN services
    /\ ~services["tts"].healthy
    /\ recoveryTimers["tts"] = 0
    /\ calls["tts"] = 0
    /\ recoveryCount = 1
    /\ lastRecoveryAttempt = 1
    /\ errorText = ""

\* C12: an 'online' event and a change of visibility to the foreground
\* each schedule exactly one health check, which starts when its timer
\* fires; an 'offline' event and a change to the background schedule and
\* start none, and 'offline' shows the offline notice.
C12_ListenersScheduleOneCheck ==
    [][/\ Online \/ BecomesVisible =>
              checkTimers' = checkTimers + 1 /\ fetches' = fetches
       /\ CheckTimerFires =>
              checkTimers' = checkTimers - 1 /\ fetches' = fetches + 1
       /\ Offline =>
              /\ checkTimers' = checkTimers
              /\ fetches' = fetches
              /\ errorVisible'
              /\ errorText' = "offline"
       /\ BecomesHidden =>
              checkTimers' = checkTimers /\ fetches' = fetches]_vars

C12_Witness ==
    /\ errorText = "offline"
    /\ errorVisible
    /\ lastCheck = "set"
    /\ checkTimers = 1
    /\ fetches = 0
    /\ running = {}

\* C13: a system recovery starts only in the step in which a poll fails
\* and takes consecutiveFailures to maxFailures or more: not in a poll
\* that is processed (whatever it reports), not in a listener, and not in
\* a scheduled recovery of one service.
C13_RecoveryOnlyFromFailedPoll ==
    [][\A i \in Slots :
          Starts(i) =>
              /\ fetches' = fetches - 1
              /\ consecutiveFailures' = consecutiveFailures + 1
              /\ consecutiveFailures' >= maxFailures
              /\ UNCHANGED <<checkTimers, recoveryTimers, calls, overall>>]_vars

C13_Witness ==
    /\ running # {}
    /\ consecutiveFailures = maxFailures
    /\ DOMAIN services = {"tts", "conversation"}
    /\ \A s \in DOMAIN services : ~services[s].healthy
    /\ overall = "critical"

\* C14: when a system recovery ends with k of the n registered services
\* recovered, the notice shown is the success notice iff k = n, the
\* partial-recovery notice iff 0 < k < n and the failure notice iff k = 0,
\* and the 3000 ms timer that hides it is armed only when k = n.
C14_NoticeByRecoveredCount ==
    [][\A i \in Slots :
          Ends(i) =>
              LET k == Cardinality({s \in Registered : results'[i][s] = "true"})
                  n == Cardinality(Registered)
              IN  /\ errorVisible'
                  /\ errorText' = "success" <=> k = n
                  /\ errorText' = "partial" <=> 0 < k /\ k < n
                  /\ errorText' = "failure" <=> k = 0
                  /\ hideTimers' = IF k = n THEN hideTimers + 1
                                            ELSE hideTimers]_vars

C14_Witness ==
    /\ running = {}
    /\ errorText = "success"
    /\ errorVisible
    /\ hideTimers = 1
    /\ consecutiveFailures = 0
    /\ \E i \in Slots : \A s \in Registered : results[i][s] = "true"

\* C15: while the partial-recovery notice or the failure notice of a system
\* recovery is visible, no step other than the user's dismissal hides it.
C15_NoticeStaysUntilDismissed ==
    [][errorVisible /\ errorText \in {"partial", "failure"} /\ ~DismissError
           => errorVisible']_vars

\* C16: cleanup leaves intervalId null; from then on intervalId stays null
\* and a health check starts only from a pending timer, never from the
\* interval; and cleanup called again changes nothing.
C16_CleanupStopsInterval ==
    [][/\ cleanup => ~intervalId'
       /\ ~intervalId =>
              /\ ~intervalId'
              /\ fetches' > fetches => checkTimers' = checkTimers - 1
       /\ cleanup /\ ~intervalId => UNCHANGED vars]_vars

C16_Witness ==
    /\ ~intervalId
    /\ lastCheck = "set"
    /\ fetches = 1
    /\ checkTimers = 0
    /\ consecutiveFailures = 2

\* The services the body reports, as an object, with available other than
\* true.
reportedUnhealthy(st) ==
    {st.entries[k].name : k \in {j \in 1..Len(st.entries) :
         st.entries[j].available \in {"false", "missing", "nonbool"}}}

\* C17: after processHealthCheckResults on a payload, exactly one recovery
\* is scheduled for every service the payload reports unhealthy that has a
\* registered strategy, none for any other service, and every service of
\* the payload without a strategy has its record and counts in overall.
C17_OneRecoveryPerUnhealthyService ==
    Processed /\ status.shape = "services" =>
        /\ \A s \in Registered :
               recoveryTimers[s] =
                   IF s \in reportedUnhealthy(status) THEN 1 ELSE 0
        /\ \A n \in reportedUnhealthy(status) \ Registered :
               /\ n \in DOMAIN services
               /\ ~services[n].healthy
               /\ overall # "healthy"

\* C18: when the task of a poll that scheduled recoveries has ended, every
\* service the payload reports has its record, overall has been recomputed
\* from the records, consecutiveFailures is 0, and none of the scheduled
\* recoveries has started.
C18_RecoveriesStartAfterThePoll ==
    Processed /\ (\E s \in Registered : recoveryTimers[s] > 0) =>
        /\ \A k \in 1..Len(status.entries) :
               status.entries[k].available # "null" =>
                   /\ status.entries[k].name \in DOMAIN services
                   /\ services[status.entries[k].name].healthy
                          = isHealthy(status.entries[k].available)
        /\ overall = computeOverall(services)
        /\ consecutiveFailures = 0
        /\ \A s \in AsyncStrategies : calls[s] = 0
        /\ recoveryCount = 0

\* What the poll in flight of SpecOverlap leaves behind.
afterPoll ==
    processHealthCheckResults(status, prior, timersFrom(prior),
                              computeOverall(prior))

\* The services with a recovery pending after that poll, and those with two.
scheduled == {s \in Registered : afterPoll.timers[s] > 0}

scheduledTwice == {s \in Registered : afterPoll.timers[s] = 2}

\* All pending recoveries have run.
Drained ==
    /\ pc = "recovering"
    /\ \A s \in Registered : recoveryTimers[s] = 0
    /\ \A s \in AsyncStrategies : calls[s] = 0

\* SystemStatus.services after one successful recovery per scheduled service
recoveredOnce ==
    [n \in DOMAIN afterPoll.services |->
        IF n \in scheduled THEN [healthy |-> TRUE] ELSE afterPoll.services[n]]

\* C19 as stated: when a service has two recoveries pending and all
\* pending recoveries have run and succeeded, the services map, overall
\* and recoveryCount are what one recovery per service would have left.
C19_TwoRecoveriesAsOne ==
    Drained /\ scheduledTwice # {} =>
        /\ services = recoveredOnce
        /\ overall = afterPoll.overall
        /\ recoveryCount = Cardinality(scheduled)

\* C19 as amended: in that case the services map and overall are what one
\* recovery per service would have left, and recoveryCount has counted
\* every recovery, the second one of a service included.
C19_TwoRecoveriesCountTwice ==
    Drained /\ scheduledTwice # {} =>
        /\ services = recoveredOnce
        /\ overall = afterPoll.overall
        /\ recoveryCount = Cardinality(scheduled) + Cardinality(scheduledTwice)
        /\ lastRecoveryAttempt = recoveryCount

C19_Witness ==
    /\ Drained
    /\ scheduledTwice = {"tts"}
    /\ scheduled = {"tts"}
    /\ services["tts"].healthy
    /\ recoveryCount = 2

\* C20: a poll that fails and leaves consecutiveFailures below maxFailures
\* adds exactly 1 to consecutiveFailures and changes nothing else: no
\* notice is shown, no recovery is scheduled or started, and the services
\* map, overall, recoveryCount and lastRecoveryAttempt are as they were
\* (lastCheck was set when the poll started).
C20_FailedPollOnlyCounts ==
    [][/\ fetches' = fetches - 1
       /\ consecutiveFailures' > consecutiveFailures
       /\ consecutiveFailures' < maxFailures
       => /\ consecutiveFailures' = consecutiveFailures + 1
          /\ UNCHANGED <<lastCheck, intervalId, overall, services,
                         lastRecoveryAttempt, recoveryCount, checkTimers,
                         recoveryTimers, calls, running, results, errorText,
                         errorVisible, hideTimers>>]_vars

C20_Witness ==
    /\ consecutiveFailures = maxFailures - 1
    /\ fetches = 0
    /\ lastCheck = "set"
    /\ intervalId
    /\ errorText = ""
    /\ ~errorVisible
    /\ running = {}
    /\ services = NoRecords

(***************************************************************************)
(* C21: provided every invoked strategy eventually returns or throws,      *)
(* every started initiateSystemRecovery eventually finishes; the step that *)
(* finishes it shows one of the three outcome notices and sets             *)
(* consecutiveFailures to 0, no outcome notice is shown by any other step, *)
(* and a recovery only starts on the failure that brings the counter to    *)
(* maxFailures or more.                                                    *)
(***************************************************************************)
Finishes ==
    [][\A i \in Slots :
          /\ Ends(i) => /\ errorText' = outcomeNotice(results'[i])
                        /\ errorVisible'
                        /\ consecutiveFailures' = 0
          /\ (\A j \in Slots : ~Ends(j)) =>
                 errorText' \in {errorText, "recovering"}
          /\ Starts(i) => consecutiveFailures' >= maxFailures]_vars

C21_RecoveryTerminates ==
    /\ \A i \in Slots : (i \in running) ~> (i \notin running)
    /\ Finishes

\* A system recovery has finished with some services recovered, and the
\* counter is back at 0.
C21_Witness ==
    /\ running = {}
    /\ \A s \in Registered : results[1][s] \in {"true", "false"}
    /\ errorText = "partial"
    /\ consecutiveFailures = 0

(***************************************************************************)
(* C26: once cleanup has run (intervalId is null) no health check starts   *)
(* (no new fetch is in flight, lastCheck is not rewritten) and no system   *)
(* recovery starts.                                                        *)
(***************************************************************************)
C26_NothingStartsAfterCleanup ==
    [][~intervalId => /\ fetches' <= fetches
                      /\ \A i \in Slots : ~Starts(i)]_vars

(***************************************************************************)
(* C22: whatever handle is cached and however the probe ends,              *)
(* recoverService('tts') returns true (the recovery is recorded: the       *)
(* record is healthy and recoveryCount has grown by one), and the call     *)
(* leaves no cached handle when it starts the probe.                       *)
(***************************************************************************)
started(s) == calls'[s] > calls[s]

settled(s) == calls'[s] < calls[s]

returnedTrue(s) == recoveryCount' = recoveryCount + 1 /\ services'[s].healthy

C22_TTSAlwaysRecovers ==
    [][/\ started("tts") => tts_service' # "handle"
       /\ settled("tts") => returnedTrue("tts")]_vars

(***************************************************************************)
(* C23: recoverService('transcription') returns true exactly when a        *)
(* usable transcription handle exists once the probe has ended.            *)
(***************************************************************************)
C23_SuccessIffHandle ==
    [][settled("transcription") =>
          (returnedTrue("transcription") <=> stt_service' = "handle")]_vars

(***************************************************************************)
(* C24: recoverService('face_detection') first cancels the timer that      *)
(* app.faceDetectionInterval refers to and clears the reference; when its  *)
(* delay ends with a camera stream present it starts a new detection timer *)
(* and returns true; when no stream is present no detection timer is live, *)
(* none is started and it returns false.                                   *)
(***************************************************************************)
restarted ==
    /\ faceDetectionInterval' \in intervals' \ intervals
    /\ intervals' = intervals \cup {faceDetectionInterval'}

C24_RestartsIffStream ==
    [][/\ started("face_detection") =>
              /\ faceDetectionInterval' = 0
              /\ faceDetectionInterval \notin intervals'
       /\ settled("face_detection") =>
              IF videoStream # "null"
              THEN restarted /\ returnedTrue("face_detection")
              ELSE /\ intervals' = {} /\ faceDetectionInterval' = 0
                   /\ recoveryCount' = recoveryCount]_vars

\* A recovery of face_detection has restarted the polling of a running
\* camera and has been recorded.
C24_Witness ==
    /\ camera = "running"
    /\ recoveryCount = 1
    /\ calls["face_detection"] = 0
    /\ faceDetectionInterval \in intervals

(***************************************************************************)
(* C27: at most one face-detection timer is live, and when one is live     *)
(* app.faceDetectionInterval is its id.                                    *)
(***************************************************************************)
C27_OneDetectionTimer ==
    /\ Cardinality(intervals) <= 1
    /\ intervals \subseteq {faceDetectionInterval}

(***************************************************************************)
(* C28: playWelcomeMessage is called at most once, and hasPlayedWelcome,   *)
(* once true, stays true.                                                  *)
(***************************************************************************)
C28_WelcomeOnce ==
    /\ [](welcomes <= 1)
    /\ [][/\ hasPlayedWelcome => hasPlayedWelcome'
          /\ welcomes' # welcomes => ~hasPlayedWelcome /\ hasPlayedWelcome']_vars

\* The welcome message has been started while another detection request is
\* still awaiting its response.
C28_Witness == welcomes = 1 /\ hasPlayedWelcome /\ detections > 0

(***************************************************************************)
(* C25: whatever the application's state, recoverService('conversation')   *)
(* returns true and leaves the conversation step IDLE, the error counter   *)
(* 0, isRecording false, the loading and the error overlay hidden and the  *)
(* record control enabled.                                                 *)
(***************************************************************************)
C25_ConversationAlwaysResets ==
    [][recoveryTimers'["conversation"] < recoveryTimers["conversation"] =>
          /\ returnedTrue("conversation")
          /\ conversationState' # <<>>
          /\ conversationState'[1].currentStep = "IDLE"
          /\ conversationState'[1].errorCount = 0
          /\ ~isRecording'
          /\ ~loadingVisible' /\ ~errorVisible'
          /\ recordBtn' # "disabled"]_vars

(***************************************************************************)
(* C29: every MediaRecorder that is recording is the one app.mediaRecorder *)
(* refers to, with isRecording true; so at most one is recording.          *)
(***************************************************************************)
C29_OneRecording ==
    \A r \in 1..MaxRecorders :
        recorders[r] = "recording" => r = mediaRecorder /\ isRecording

(***************************************************************************)
(* C30: a processAudio call that has ended has removed or replaced its own *)
(* placeholder, and a placeholder is only ever removed or replaced by the  *)
(* call that created it, so not before that call has ended.               *)
(***************************************************************************)
C30_OwnPlaceholderOnly ==
    \A i \in 1..MaxProcessing :
        processing[i] = "done" <=> placeholders[i] \in {"replaced", "removed"}

====
